---- MODULE Spec2Model ----
(***************************************************************************)
(* Model of the Dropbox storage backend of Captioner-backend               *)
(* (src/app/storage.py, class DropboxStorage).                             *)
(*                                                                         *)
(* A backend instance holds the OAuth credentials read at construction,    *)
(* the configured root and the cached access token.  A caller runs one of  *)
(* the five operations; every outbound HTTP request and the response to it *)
(* are separate steps, so that the order of requests, the bearer they      *)
(* carry and what is in flight are visible in the state.                   *)
(*                                                                         *)
(* JSON objects are functions from key strings to values, a key that is    *)
(* absent from the object is absent from the function's domain; strings    *)
(* the code inspects character by character (paths) are sequences of       *)
(* one-character strings.                                                  *)
(***************************************************************************)
EXTENDS Integers, Sequences, FiniteSets, TLC

VARIABLES
    constructed,    \* instance -> BOOLEAN: __init__ has run
    app_key,        \* instance -> self.app_key
    app_secret,     \* instance -> self.app_secret
    refresh_token,  \* instance -> self.refresh_token
    base_path,      \* instance -> self.base_path
    token,          \* instance -> self.token
    nops,           \* instance -> operations started on it (bounded)
    tokenReqs,      \* instance -> requests sent to the token endpoint
    refreshFailed,  \* instance -> refreshes that raised
    issued,         \* instance -> tokens stored by a refresh that returned
    succeeded,      \* instance -> some remote call has answered successfully
    unauthorized,   \* instance -> some data request has been answered 401
    pc,             \* caller -> "idle" | "wait_token" | "wait_data"
    inst,           \* caller -> instance of the current / last operation
    op,             \* caller -> the current / last operation and its arguments
    req,            \* caller -> the request in flight (NoReq when none)
    images,         \* caller -> list_photos' local list `images`
    sent,           \* caller -> requests sent by the current operation
    resps,          \* caller -> responses received by the current operation
    res,            \* caller -> outcome of the last operation (NoRes while running)
    environ,        \* os.environ, as far as get_storage_backend reads it
    backend,        \* what get_storage_backend gave under this environment
    photo_rows,     \* table `photos`: its rows in the order of their id
    listing,        \* what list_photos gave the last rescan
    created,        \* the dao.create calls of the last rescan, in order
    rescanned,      \* how the last rescan ended
    remote,         \* the remote: object path -> its caption property
    served          \* caller -> the remote's answer to the request in flight

vars == <<constructed, app_key, app_secret, refresh_token, base_path, token,
          nops, tokenReqs, refreshFailed, issued, succeeded, unauthorized,
          pc, inst, op, req, images, sent, resps, res, environ, backend,
          photo_rows, listing, created, rescanned, remote, served>>

selVars == <<environ, backend>>

appVars == <<photo_rows, listing, created, rescanned, remote, served>>

storageVars ==
    <<constructed, app_key, app_secret, refresh_token, base_path, token,
      nops, tokenReqs, refreshFailed, issued, succeeded, unauthorized,
      pc, inst, op, req, images, sent, resps, res>>

instVars == <<constructed, app_key, app_secret, refresh_token, base_path>>

----------------------------------------------------------------------------
(* Bounds *)

MaxOps == 2        \* operations started per instance
MaxPages == 3      \* pages of one listing
MaxEntries == 2    \* entries of one listing, over all its pages
MaxGroups == 2     \* property groups of one properties/get answer
MaxRows == 2       \* rows of table photos before a rescan

Instances == {1, 2}
Callers == {1, 2}

----------------------------------------------------------------------------
(* Values *)

NoneVal == "<None>"

\* dict.get(key, default)
Get(d, key, default) == IF key \in DOMAIN d THEN d[key] ELSE default

\* Python truthiness of a str-or-None value (`not self.token`, all([...]))
Truthy(v) == v # NoneVal /\ v # ""

\* the credentials check with the last of the three left out
AllButLast(vs) == \A k \in 1..(Len(vs) - 1) : Truthy(vs[k])

\* all([self.app_key, self.app_secret, self.refresh_token])
All(vs) == \A k \in 1..Len(vs) : Truthy(vs[k])

_SUCCESS_CODE == 200
_NOT_FOUND_CODE == 409
_TEMPLATE_NAME == "CaptionerPhotoTags"
_FIELD_NAME == "caption"

_DROPBOX_LIST_FOLDER_URL == "files/list_folder"
_DROPBOX_LIST_FOLDER_CONTINUE_URL == "files/list_folder/continue"
_DROPBOX_DOWNLOAD_URL == "files/download"
_DROPBOX_PROPERTIES_GET_URL == "file_properties/properties/get"
_DROPBOX_PROPERTIES_OVERWRITE_URL == "file_properties/properties/overwrite"
_DROPBOX_PROPERTIES_REMOVE_URL == "file_properties/properties/remove"
OAUTH_TOKEN_URL == "oauth2/token"

DataEndpoints ==
    {_DROPBOX_LIST_FOLDER_URL, _DROPBOX_LIST_FOLDER_CONTINUE_URL,
     _DROPBOX_DOWNLOAD_URL, _DROPBOX_PROPERTIES_GET_URL,
     _DROPBOX_PROPERTIES_OVERWRITE_URL, _DROPBOX_PROPERTIES_REMOVE_URL}

----------------------------------------------------------------------------
(* Strings as sequences of characters *)

NL == "\n"

\* the lower-case letter of every upper-case letter the model's strings use
ToLower ==
    ("J" :> "j") @@ ("P" :> "p") @@ ("E" :> "e") @@ ("G" :> "g") @@ ("N" :> "n")
    @@ ("F" :> "f") @@ ("I" :> "i") @@ ("L" :> "l") @@ ("S" :> "s") @@ ("Y" :> "y")
    @@ ("T" :> "t") @@ ("M" :> "m") @@ ("D" :> "d") @@ ("R" :> "r") @@ ("O" :> "o")
    @@ ("B" :> "b") @@ ("X" :> "x")

\* str.lower() on one character
LowerChar(ch) == IF ch \in DOMAIN ToLower THEN ToLower[ch] ELSE ch

Lower(s) == [k \in 1..Len(s) |-> LowerChar(s[k])]

\* the display path kept as the remote gave it
LStripNone(s) == s

\* str.lstrip("/"): every leading slash goes
RECURSIVE LStrip(_)
LStrip(s) == IF s # <<>> /\ Head(s) = "/" THEN LStrip(Tail(s)) ELSE s

\* str.startswith("/")
StartsWithSlash(s) == s # <<>> /\ Head(s) = "/"

\* the alternatives of (jpe?g|png)
PatternExts == {<<"j", "p", "g">>, <<"j", "p", "e", "g">>, <<"p", "n", "g">>}

\* `$` of Python's re without MULTILINE: at the end of the string, or just
\* before a newline that is the last character of the string
AtDollar(rest) == rest = <<>> \/ rest = <<NL>>

\* re.compile(r"\.(jpe?g|png)$", re.IGNORECASE).search(s) is not None
image_pattern_search(s) ==
    \E k \in 1..Len(s) :
        /\ s[k] = "."
        /\ \E ext \in PatternExts :
              /\ k + Len(ext) <= Len(s)
              /\ Lower(SubSeq(s, k + 1, k + Len(ext))) = ext
              /\ AtDollar(SubSeq(s, k + Len(ext) + 1, Len(s)))

\* the comprehension of list_photos: the entries that are files and match the
\* pattern, each mapped to its display path without leading slashes
RECURSIVE FilterEntries(_)
FilterEntries(entries) ==
    IF entries = <<>> THEN <<>>
    ELSE LET entry == Head(entries)
             keep  == /\ Get(entry, ".tag", NoneVal) = "file"
                      /\ image_pattern_search(Get(entry, "path_display", <<>>))
         IN  (IF keep THEN <<LStrip(entry["path_display"])>> ELSE <<>>)
                 \o FilterEntries(Tail(entries))

\* the list rebound to the new page's identifiers instead of extended
ExtendReplacing(old, new) == new

\* images.extend(new)
Extend(old, new) == old \o new

----------------------------------------------------------------------------
(* The remote's possible answers *)

File(path) == (".tag" :> "file") @@ ("path_display" :> path)
Folder(path) == (".tag" :> "folder") @@ ("path_display" :> path)

EntryUniverse ==
    { File(<<"/", "p", "h", "o", "t", "o", "s", "/", "a", ".", "j", "p", "g">>),
      File(<<"/", "d", "/", "b", ".", "J", "p", "E", "G">>),
      File(<<"/", "a", ".", "t", "x", "t">>),
      File(<<"/", "e", ".", "j", "p", "g", NL>>),
      Folder(<<"/", "d", ".", "p", "n", "g">>) }

\* the opaque cursor the remote hands out with page n of a listing: a fresh
\* one with every page
Cursor(n) == <<"cursor", n>>

\* has_more and cursor of page n of a listing; `more` tells whether the page
\* may announce a further one (the model's page bound).  The remote sends a
\* cursor with every page, the last one included; a page that announces more
\* without a cursor is the malformed case
PageTails(n, more) ==
    { ("has_more" :> FALSE) @@ ("cursor" :> Cursor(n)) }
    \cup (IF more
          THEN { ("has_more" :> TRUE), ("has_more" :> TRUE) @@ ("cursor" :> Cursor(n)) }
          ELSE {})

RECURSIVE SeqsUpTo(_, _)
SeqsUpTo(S, n) ==
    IF n = 0 THEN {<<>>}
    ELSE LET shorter == SeqsUpTo(S, n - 1)
         IN  shorter \cup {Append(q, x) : q \in {t \in shorter : Len(t) = n - 1}, x \in S}

\* 200 answers of list_folder and list_folder/continue for page n of a
\* listing: up to `room` entries
ListBodies(n, room, more) ==
    { ("entries" :> es) @@ tail :
         es \in SeqsUpTo(EntryUniverse, room), tail \in PageTails(n, more) }

\* 200 answers of download: resp.content
Contents == { ("content" :> b) : b \in {"bytes-1", "bytes-2"} }

Field(name, value) == ("name" :> name) @@ ("value" :> value)

GroupUniverse ==
    { ("template_id" :> _TEMPLATE_NAME) @@ ("fields" :> <<Field(_FIELD_NAME, "by-id")>>),
      ("template_name" :> _TEMPLATE_NAME)
          @@ ("fields" :> <<Field("other", "x"), Field(_FIELD_NAME, "by-name")>>),
      ("template_id" :> "ptid:other") @@ ("fields" :> <<Field(_FIELD_NAME, "foreign")>>),
      ("template_id" :> _TEMPLATE_NAME) @@ ("fields" :> <<Field("other", "y")>>),
      ("template_id" :> _TEMPLATE_NAME) }

\* 200 answers of properties/get
PropertyBodies ==
    { ("property_groups" :> gs) : gs \in SeqsUpTo(GroupUniverse, MaxGroups) } \cup { <<>> }

\* the access tokens the token endpoint issues: a fresh one with every
\* refresh request, by instance and by number of the request
TokenNames ==
    << <<"T1-1", "T1-2", "T1-3", "T1-4">>, <<"T2-1", "T2-2", "T2-3", "T2-4">> >>

FreshToken(i, k) == TokenNames[i][k]

AccessTokens == { FreshToken(i, k) : i \in DOMAIN TokenNames, k \in 1..4 }

\* 200 answers of the token endpoint to refresh request number k of
\* instance i: the fresh token, an empty token, no token at all
TokenBodies(i, k) ==
    { ("access_token" :> t) @@ ("token_type" :> "bearer") : t \in {FreshToken(i, k), ""} }
    \cup { ("error" :> "invalid_grant") }

StatusCodes == {200, 401, 409}

\* what requests.post can raise: the transport library's RequestException, or
\* anything else
ExcKinds == {"RequestException", "Exception"}

Resp(exc, status, body) == [exc |-> exc, status_code |-> status, body |-> body]

Raised == { Resp(e, 0, <<>>) : e \in ExcKinds }
NonSuccess == { Resp("", st, <<>>) : st \in StatusCodes \ {_SUCCESS_CODE} }
Success(bodies) == { Resp("", _SUCCESS_CODE, b) : b \in bodies }

----------------------------------------------------------------------------
(* Requests, outcomes *)

NoHeaders == "<no-headers>"

Request(url, bearer, json, data) ==
    [url |-> url, bearer |-> bearer, json |-> json, data |-> data]

NoReq == Request("", NoHeaders, <<>>, <<>>)

DropboxStorageError == "DropboxStorageError"

CredentialsMsg == "Dropbox OAuth credentials are not set"
TokenMsg == "Failed to obtain Dropbox access token"
RequestFailedMsg == "Dropbox API request failed"
ApiErrorMsg == "Dropbox API error"

\* an operation returned `value`
Return(value) ==
    [kind |-> "ok", value |-> value, type |-> "", msg |-> "", status |-> 0, cause |-> ""]

\* the value of an outcome that is no return
NoValue == <<>>

\* an operation raised; status and cause are what the message is formatted with
Raise(type, msg, status, cause) ==
    [kind |-> "error", value |-> NoValue, type |-> type, msg |-> msg,
     status |-> status, cause |-> cause]

NoRes ==
    [kind |-> "none", value |-> NoValue, type |-> "", msg |-> "", status |-> 0, cause |-> ""]

\* a constructor call returned a new instance of class cls
Instance(cls) == Return(<<cls>>)

\* the except clauses raising the storage error without `from exc`, for
\* whatever was raised
ExceptWithoutCause(exc, msg) == Raise(DropboxStorageError, msg, 0, "")

\* an exception of requests.post as the `except requests.RequestException`
\* clauses see it: a RequestException is wrapped with `msg`, anything else
\* propagates as it is
Except(exc, msg) ==
    IF exc = "RequestException"
    THEN Raise(DropboxStorageError, msg, 0, exc)
    ELSE Raise(exc, "", 0, "")

\* the download path built like the caption paths: "/" and the identifier
PhotosPrefixSlashOnly == <<"/">>

PhotosPrefix == <<"/", "p", "h", "o", "t", "o", "s", "/">>

Identifiers ==
    { <<"a", ".", "j", "p", "g">>, <<"d", "/", "b", ".", "P", "n", "G">>,
      <<"p", "h", "o", "t", "o", "s", "/", "a", ".", "j", "p", "g">> }
Captions == {"hello", ""}

\* the object the runs with a restricted argument work on
SharedKey == <<"a", ".", "j", "p", "g">>

Op(name, key, caption) == [name |-> name, key |-> key, caption |-> caption]

NoOp == Op("", <<>>, "")

----------------------------------------------------------------------------
(* Construction *)

CredValues == {NoneVal, "", "set"}

Photos == <<"p", "h", "o", "t", "o", "s">>
BasePathInputs == { <<>>, Photos, <<"/">> \o Photos }

\* base_path as __init__ leaves it: the argument, else DROPBOX_ROOT_PATH, with
\* a leading "/" put in front of a non-empty path that lacks one
NormalizeBasePath(arg, root_env) ==
    LET chosen == IF arg = <<>> THEN root_env ELSE arg
    IN  IF chosen # <<>> /\ ~StartsWithSlash(chosen) THEN <<"/">> \o chosen ELSE chosen

StorageInit ==
    /\ constructed = [i \in Instances |-> FALSE]
    /\ app_key = [i \in Instances |-> NoneVal]
    /\ app_secret = [i \in Instances |-> NoneVal]
    /\ refresh_token = [i \in Instances |-> NoneVal]
    /\ base_path = [i \in Instances |-> <<>>]
    /\ token = [i \in Instances |-> NoneVal]
    /\ nops = [i \in Instances |-> 0]
    /\ tokenReqs = [i \in Instances |-> 0]
    /\ refreshFailed = [i \in Instances |-> 0]
    /\ issued = [i \in Instances |-> {}]
    /\ succeeded = [i \in Instances |-> FALSE]
    /\ unauthorized = [i \in Instances |-> FALSE]
    /\ pc = [c \in Callers |-> "idle"]
    /\ inst = [c \in Callers |-> 1]
    /\ op = [c \in Callers |-> NoOp]
    /\ req = [c \in Callers |-> NoReq]
    /\ images = [c \in Callers |-> <<>>]
    /\ sent = [c \in Callers |-> <<>>]
    /\ resps = [c \in Callers |-> <<>>]
    /\ res = [c \in Callers |-> NoRes]
    /\ environ = <<>>
    /\ backend = NoRes

\* no rescan has run
NoRescan == [status |-> "none", num_new_photos |-> 0, type |-> ""]

\* the application's state before any request: what the first rescan does
\* not depend on
AppInit ==
    /\ listing = NoRes
    /\ created = <<>>
    /\ rescanned = NoRescan

\* the remote has answered nothing
NoServed == [c \in Callers |-> [tag |-> <<>>, resp |-> Resp("", 0, <<>>)]]

\* the caption property of a file on the remote, and the properties/remove
\* requests the remote has answered for the file
Property(caption, removes) == [caption |-> caption, removes |-> removes]

Init ==
    /\ StorageInit
    /\ AppInit
    /\ photo_rows = <<>>
    /\ remote = (<<"/">> \o SharedKey :> Property(NoneVal, 0))
    /\ served = NoServed

\* DropboxStorage.__init__ under an environment holding the three credentials
\* and DROPBOX_ROOT_PATH
DropboxStorage_init(i, key, secret, refresh, arg, root_env) ==
    /\ ~constructed[i]
    /\ constructed' = [constructed EXCEPT ![i] = TRUE]
    /\ token' = [token EXCEPT ![i] = NoneVal]
    /\ app_key' = [app_key EXCEPT ![i] = key]
    /\ app_secret' = [app_secret EXCEPT ![i] = secret]
    /\ refresh_token' = [refresh_token EXCEPT ![i] = refresh]
    /\ base_path' = [base_path EXCEPT ![i] = NormalizeBasePath(arg, root_env)]
    /\ UNCHANGED <<nops, tokenReqs, refreshFailed, issued, succeeded, unauthorized,
                   pc, inst, op, req, images, sent, resps, res, selVars, appVars>>

Construct(i) ==
    /\ ~constructed[i]
    /\ \E key \in CredValues, secret \in CredValues, refresh \in CredValues,
       arg \in BasePathInputs, root_env \in BasePathInputs :
          DropboxStorage_init(i, key, secret, refresh, arg, root_env)

----------------------------------------------------------------------------
(* The five operations: from the call to the first outbound request *)

TokenRequest(i) ==
    Request(OAUTH_TOKEN_URL, NoHeaders, <<>>,
            [grant_type |-> "refresh_token", refresh_token |-> refresh_token[i],
             client_id |-> app_key[i], client_secret |-> app_secret[i]])

\* the first data request of operation o, built with bearer tok
DataRequest(o, root, tok) ==
    CASE o.name = "list_photos" ->
            Request(_DROPBOX_LIST_FOLDER_URL, tok,
                    [path |-> root, recursive |-> TRUE], <<>>)
      [] o.name = "get_photo" ->
            Request(_DROPBOX_DOWNLOAD_URL, tok, <<>>,
                    [path |-> PhotosPrefix \o o.key])
      [] o.name = "get_caption" ->
            Request(_DROPBOX_PROPERTIES_GET_URL, tok,
                    [path |-> <<"/">> \o o.key, property_templates |-> <<_TEMPLATE_NAME>>],
                    <<>>)
      [] o.name = "set_caption" ->
            Request(_DROPBOX_PROPERTIES_OVERWRITE_URL, tok,
                    [path |-> <<"/">> \o o.key,
                     property_groups |->
                        << [template_id |-> _TEMPLATE_NAME,
                            fields |-> <<Field(_FIELD_NAME, o.caption)>>] >>],
                    <<>>)
      [] o.name = "delete_caption" ->
            Request(_DROPBOX_PROPERTIES_REMOVE_URL, tok,
                    [path |-> <<"/">> \o o.key, property_template_id |-> _TEMPLATE_NAME,
                     property_field_names |-> <<_FIELD_NAME>>],
                    <<>>)

\* the head of the operations testing `self.token is None`
NeedsTokenIsNone(tok) == tok = NoneVal

\* the head of the operations refreshing on every call
NeedsTokenAlways(tok) == TRUE

\* `if not self.token:` at the head of every operation
NeedsToken(tok) == ~Truthy(tok)

\* the caller's operation ends with outcome r
Finish(c, r) ==
    /\ pc' = [pc EXCEPT ![c] = "idle"]
    /\ req' = [req EXCEPT ![c] = NoReq]
    /\ res' = [res EXCEPT ![c] = r]

\* the caller's operation sends rq and waits for the answer
Send(c, rq, waiting) ==
    /\ pc' = [pc EXCEPT ![c] = waiting]
    /\ req' = [req EXCEPT ![c] = rq]
    /\ res' = [res EXCEPT ![c] = NoRes]

\* the head of the operations with a single-flight refresh: a caller finding
\* a refresh of the instance in flight sends none of its own
BeginSingleFlight(c, i, o) ==
    /\ pc[c] = "idle"
    /\ constructed[i]
    /\ nops[i] < MaxOps
    /\ nops' = [nops EXCEPT ![i] = @ + 1]
    /\ inst' = [inst EXCEPT ![c] = i]
    /\ op' = [op EXCEPT ![c] = o]
    /\ images' = [images EXCEPT ![c] = <<>>]
    /\ resps' = [resps EXCEPT ![c] = <<>>]
    /\ IF NeedsToken(token[i]) /\ ~\E d \in Callers : pc[d] = "wait_token" /\ inst[d] = i
       THEN IF ~All(<<app_key[i], app_secret[i], refresh_token[i]>>)
            THEN /\ Finish(c, Raise(DropboxStorageError, CredentialsMsg, 0, ""))
                 /\ sent' = [sent EXCEPT ![c] = <<>>]
                 /\ UNCHANGED tokenReqs
            ELSE /\ Send(c, TokenRequest(i), "wait_token")
                 /\ sent' = [sent EXCEPT ![c] = <<TokenRequest(i)>>]
                 /\ tokenReqs' = [tokenReqs EXCEPT ![i] = @ + 1]
       ELSE /\ Send(c, DataRequest(o, base_path[i], token[i]), "wait_data")
            /\ sent' = [sent EXCEPT ![c] = <<DataRequest(o, base_path[i], token[i])>>]
            /\ UNCHANGED tokenReqs
    /\ UNCHANGED <<instVars, token, refreshFailed, issued, succeeded, unauthorized, selVars, appVars>>

\* the common head of the five operations: credentials check, refresh request
\* when no token is cached, else the operation's own request
Begin(c, i, o) ==
    /\ pc[c] = "idle"
    /\ constructed[i]
    /\ nops[i] < MaxOps
    /\ nops' = [nops EXCEPT ![i] = @ + 1]
    /\ inst' = [inst EXCEPT ![c] = i]
    /\ op' = [op EXCEPT ![c] = o]
    /\ images' = [images EXCEPT ![c] = <<>>]
    /\ resps' = [resps EXCEPT ![c] = <<>>]
    /\ IF NeedsToken(token[i])
       THEN IF ~All(<<app_key[i], app_secret[i], refresh_token[i]>>)
            THEN /\ Finish(c, Raise(DropboxStorageError, CredentialsMsg, 0, ""))
                 /\ sent' = [sent EXCEPT ![c] = <<>>]
                 /\ UNCHANGED tokenReqs
            ELSE /\ Send(c, TokenRequest(i), "wait_token")
                 /\ sent' = [sent EXCEPT ![c] = <<TokenRequest(i)>>]
                 /\ tokenReqs' = [tokenReqs EXCEPT ![i] = @ + 1]
       ELSE /\ Send(c, DataRequest(o, base_path[i], token[i]), "wait_data")
            /\ sent' = [sent EXCEPT ![c] = <<DataRequest(o, base_path[i], token[i])>>]
            /\ UNCHANGED tokenReqs
    /\ UNCHANGED <<instVars, token, refreshFailed, issued, succeeded, unauthorized, selVars, appVars>>

list_photos(c, i) == Begin(c, i, Op("list_photos", <<>>, ""))

get_photo(c, i) == \E identifier \in Identifiers : Begin(c, i, Op("get_photo", identifier, ""))

get_caption(c, i) == \E object_key \in Identifiers : Begin(c, i, Op("get_caption", object_key, ""))

set_caption(c, i) ==
    \E object_key \in Identifiers, caption \in Captions :
        Begin(c, i, Op("set_caption", object_key, caption))

delete_caption(c, i) ==
    \E object_key \in Identifiers : Begin(c, i, Op("delete_caption", object_key, ""))

----------------------------------------------------------------------------
(* The answer to the refresh request: the rest of _refresh_token, then the  *)
(* operation's own request                                                 *)

\* self.token after _refresh_token has handled answer r
TokenAfterRefresh(old, r) ==
    IF r.exc = "" /\ r.status_code = _SUCCESS_CODE
    THEN Get(r.body, "access_token", NoneVal)
    ELSE old

\* _refresh_token without its last check of self.token
RefreshOutcomeUnchecked(tok, r) ==
    IF r.exc # "" THEN Except(r.exc, TokenMsg)
    ELSE IF r.status_code # _SUCCESS_CODE
         THEN Raise(DropboxStorageError, TokenMsg, r.status_code, "")
    ELSE NoRes

\* what _refresh_token raises on answer r, tok being self.token after the
\* assignment (NoRes: it returns)
RefreshOutcome(tok, r) ==
    IF r.exc # "" THEN Except(r.exc, TokenMsg)
    ELSE IF r.status_code # _SUCCESS_CODE
         THEN Raise(DropboxStorageError, TokenMsg, r.status_code, "")
    ELSE IF ~Truthy(tok)
         THEN Raise(DropboxStorageError, TokenMsg, 0, "")
    ELSE NoRes

\* the answer to the refresh request with the token kept on the class: every
\* instance sees the token a refresh stores
RefreshTokenResponseShared(c) ==
    /\ pc[c] = "wait_token"
    /\ \E r \in Raised \cup NonSuccess
                 \cup Success(TokenBodies(inst[c], tokenReqs[inst[c]])) :
        LET i   == inst[c]
            tok == TokenAfterRefresh(token[i], r)
            out == RefreshOutcome(tok, r)
            rq  == DataRequest(op[c], base_path[i], tok)
        IN  /\ resps' = [resps EXCEPT ![c] = Append(@, r)]
            /\ token' = [j \in Instances |-> tok]
            /\ IF out # NoRes
               THEN /\ Finish(c, out)
                    /\ refreshFailed' = [refreshFailed EXCEPT ![i] = @ + 1]
                    /\ UNCHANGED <<sent, issued, succeeded>>
               ELSE /\ Send(c, rq, "wait_data")
                    /\ sent' = [sent EXCEPT ![c] = Append(@, rq)]
                    /\ issued' = [issued EXCEPT ![i] = @ \cup {tok}]
                    /\ succeeded' = [succeeded EXCEPT ![i] = TRUE]
                    /\ UNCHANGED refreshFailed
            /\ UNCHANGED <<instVars, nops, tokenReqs, unauthorized, inst, op, images, selVars, appVars>>

\* the rest of _refresh_token and of the head of the operation
RefreshTokenResponse(c) ==
    /\ pc[c] = "wait_token"
    /\ \E r \in Raised \cup NonSuccess
                 \cup Success(TokenBodies(inst[c], tokenReqs[inst[c]])) :
        LET i   == inst[c]
            tok == TokenAfterRefresh(token[i], r)
            out == RefreshOutcome(tok, r)
            rq  == DataRequest(op[c], base_path[i], tok)
        IN  /\ resps' = [resps EXCEPT ![c] = Append(@, r)]
            /\ token' = [token EXCEPT ![i] = tok]
            /\ IF out # NoRes
               THEN /\ Finish(c, out)
                    /\ refreshFailed' = [refreshFailed EXCEPT ![i] = @ + 1]
                    /\ UNCHANGED <<sent, issued, succeeded>>
               ELSE /\ Send(c, rq, "wait_data")
                    /\ sent' = [sent EXCEPT ![c] = Append(@, rq)]
                    /\ issued' = [issued EXCEPT ![i] = @ \cup {tok}]
                    /\ succeeded' = [succeeded EXCEPT ![i] = TRUE]
                    /\ UNCHANGED refreshFailed
            /\ UNCHANGED <<instVars, nops, tokenReqs, unauthorized, inst, op, images, selVars, appVars>>

----------------------------------------------------------------------------
(* The answers to the data requests *)

\* the answers received so far from the data endpoints, in order
DataResps(c) ==
    IF sent[c] # <<>> /\ sent[c][1].url = OAUTH_TOKEN_URL /\ resps[c] # <<>>
    THEN Tail(resps[c]) ELSE resps[c]

RECURSIVE EntryCount(_)
EntryCount(rs) ==
    IF rs = <<>> THEN 0
    ELSE Len(Get(Head(rs).body, "entries", <<>>)) + EntryCount(Tail(rs))

\* `if resp.status_code != 200: raise` shared by every operation
StatusError(r) == Raise(DropboxStorageError, ApiErrorMsg, r.status_code, "")

\* the loop of list_photos asking again with the cursor of the first page
ContinueRequestFirstCursor(c, result) ==
    Request(_DROPBOX_LIST_FOLDER_CONTINUE_URL, token[inst[c]],
            [cursor |-> (IF DataResps(c) = <<>> THEN result
                         ELSE DataResps(c)[1].body)["cursor"]],
            <<>>)

\* the request of the loop body of list_photos: the cursor of the page just
\* received
ContinueRequest(c, result) ==
    Request(_DROPBOX_LIST_FOLDER_CONTINUE_URL, token[inst[c]],
            [cursor |-> result["cursor"]], <<>>)

\* the token dropped when the remote rejects it
TokenAfterDataInvalidate(old, r) == IF r.status_code = 401 THEN NoneVal ELSE old

\* the token dropped on every answer that is not a success
TokenAfterDataReset(old, r) ==
    IF r.exc = "" /\ r.status_code # _SUCCESS_CODE THEN NoneVal ELSE old

\* self.token after the answer r to a data request: no operation assigns it
TokenAfterData(old, r) == old

\* what every data answer does, whatever the operation
Received(c, r) ==
    /\ resps' = [resps EXCEPT ![c] = Append(@, r)]
    /\ token' = [token EXCEPT ![inst[c]] = TokenAfterData(@, r)]
    /\ succeeded' = [succeeded EXCEPT ![inst[c]] = @ \/ (r.exc = "" /\ r.status_code = _SUCCESS_CODE)]
    /\ unauthorized' = [unauthorized EXCEPT ![inst[c]] = @ \/ r.status_code = 401]
    /\ UNCHANGED <<instVars, nops, tokenReqs, refreshFailed, issued, inst, op, selVars, appVars>>

\* a failed data call sent once more before the operation gives up
FailAfterRetry(c, out) ==
    IF Len(sent[c]) < 2
    THEN /\ Send(c, req[c], "wait_data")
         /\ sent' = [sent EXCEPT ![c] = Append(@, req[c])]
         /\ UNCHANGED images
    ELSE /\ Finish(c, out)
         /\ UNCHANGED <<images, sent>>

\* a failed listing handing back the identifiers gathered so far
FailReturningPartial(c, out) ==
    /\ Finish(c, IF op[c].name = "list_photos" THEN Return(images[c]) ELSE out)
    /\ UNCHANGED <<images, sent>>

\* a raise out of an operation that has a data request behind it: the
\* operation ends there, nothing is sent again
Fail(c, out) ==
    /\ Finish(c, out)
    /\ UNCHANGED <<images, sent>>

\* list_photos with a page bound of its own: it follows one continuation and
\* returns what it has after the second page
ListFolderResponseBounded(c) ==
    /\ pc[c] = "wait_data"
    /\ op[c].name = "list_photos"
    /\ \E r \in Raised \cup NonSuccess \cup
             Success(ListBodies(Len(DataResps(c)) + 1,
                                MaxEntries - EntryCount(DataResps(c)),
                                Len(DataResps(c)) + 1 < MaxPages)) :
        LET result == r.body
            imgs   == Extend(images[c], FilterEntries(Get(result, "entries", <<>>)))
        IN  /\ Received(c, r)
            /\ IF r.exc # ""
               THEN Fail(c, Except(r.exc, RequestFailedMsg))
               ELSE IF r.status_code # _SUCCESS_CODE
               THEN Fail(c, StatusError(r))
               ELSE /\ images' = [images EXCEPT ![c] = imgs]
                    /\ IF Get(result, "has_more", FALSE) /\ Len(DataResps(c)) = 0
                       THEN IF "cursor" \notin DOMAIN result
                            THEN Finish(c, Raise("KeyError", "cursor", 0, "")) /\ UNCHANGED sent
                            ELSE /\ Send(c, ContinueRequest(c, result), "wait_data")
                                 /\ sent' = [sent EXCEPT ![c] =
                                                Append(@, ContinueRequest(c, result))]
                       ELSE Finish(c, Return(imgs)) /\ UNCHANGED sent

\* list_photos after the answer to list_folder or list_folder/continue
ListFolderResponse(c) ==
    /\ pc[c] = "wait_data"
    /\ op[c].name = "list_photos"
    /\ \E r \in Raised \cup NonSuccess \cup
             Success(ListBodies(Len(DataResps(c)) + 1,
                                MaxEntries - EntryCount(DataResps(c)),
                                Len(DataResps(c)) + 1 < MaxPages)) :
        LET result == r.body
            imgs   == Extend(images[c], FilterEntries(Get(result, "entries", <<>>)))
        IN  /\ Received(c, r)
            /\ IF r.exc # ""
               THEN Fail(c, Except(r.exc, RequestFailedMsg))
               ELSE IF r.status_code # _SUCCESS_CODE
               THEN Fail(c, StatusError(r))
               ELSE /\ images' = [images EXCEPT ![c] = imgs]
                    /\ IF Get(result, "has_more", FALSE)
                       THEN IF "cursor" \notin DOMAIN result
                            THEN Finish(c, Raise("KeyError", "cursor", 0, "")) /\ UNCHANGED sent
                            ELSE /\ Send(c, ContinueRequest(c, result), "wait_data")
                                 /\ sent' = [sent EXCEPT ![c] =
                                                Append(@, ContinueRequest(c, result))]
                       ELSE Finish(c, Return(imgs)) /\ UNCHANGED sent

\* get_photo after the answer to download
DownloadResponse(c) ==
    /\ pc[c] = "wait_data"
    /\ op[c].name = "get_photo"
    /\ \E r \in Raised \cup NonSuccess \cup Success(Contents) :
        /\ Received(c, r)
        /\ IF r.exc # "" THEN Fail(c, Except(r.exc, RequestFailedMsg))
           ELSE IF r.status_code # _SUCCESS_CODE THEN Fail(c, StatusError(r))
           ELSE Finish(c, Return(r.body["content"])) /\ UNCHANGED <<images, sent>>

\* the two loops of get_caption: the value of the first field named `caption`
\* in the first group, in order, that is of the template and has such a field
RECURSIVE FieldValue(_)
FieldValue(fields) ==
    IF fields = <<>> THEN [found |-> FALSE, value |-> NoneVal]
    ELSE IF Get(Head(fields), "name", NoneVal) = _FIELD_NAME
         THEN [found |-> TRUE, value |-> Get(Head(fields), "value", NoneVal)]
    ELSE FieldValue(Tail(fields))

\* the scan ending at the first group of the template, with or without a
\* caption field in it
RECURSIVE ScanGroupsFirstTemplate(_)
ScanGroupsFirstTemplate(groups) ==
    IF groups = <<>> THEN NoneVal
    ELSE LET prop == Head(groups)
         IN  IF \/ Get(prop, "template_id", NoneVal) = _TEMPLATE_NAME
                \/ Get(prop, "template_name", NoneVal) = _TEMPLATE_NAME
             THEN FieldValue(Get(prop, "fields", <<>>)).value
             ELSE ScanGroupsFirstTemplate(Tail(groups))

RECURSIVE ScanGroups(_)
ScanGroups(groups) ==
    IF groups = <<>> THEN NoneVal
    ELSE LET prop == Head(groups)
             hit  == IF \/ Get(prop, "template_id", NoneVal) = _TEMPLATE_NAME
                        \/ Get(prop, "template_name", NoneVal) = _TEMPLATE_NAME
                     THEN FieldValue(Get(prop, "fields", <<>>))
                     ELSE [found |-> FALSE, value |-> NoneVal]
         IN  IF hit.found THEN hit.value ELSE ScanGroups(Tail(groups))

\* get_caption raising on 409 as on any other status
PropertiesGetResponseStrict(c) ==
    /\ pc[c] = "wait_data"
    /\ op[c].name = "get_caption"
    /\ \E r \in Raised \cup NonSuccess \cup Success(PropertyBodies) :
        /\ Received(c, r)
        /\ IF r.exc # "" THEN Fail(c, Except(r.exc, RequestFailedMsg))
           ELSE IF r.status_code # _SUCCESS_CODE THEN Fail(c, StatusError(r))
           ELSE /\ Finish(c, Return(ScanGroups(Get(r.body, "property_groups", <<>>))))
                /\ UNCHANGED <<images, sent>>

\* get_caption after the answer to properties/get
PropertiesGetResponse(c) ==
    /\ pc[c] = "wait_data"
    /\ op[c].name = "get_caption"
    /\ \E r \in Raised \cup NonSuccess \cup Success(PropertyBodies) :
        /\ Received(c, r)
        /\ IF r.exc # "" THEN Fail(c, Except(r.exc, RequestFailedMsg))
           ELSE IF r.status_code # _SUCCESS_CODE
           THEN IF r.status_code = _NOT_FOUND_CODE
                THEN Finish(c, Return(NoneVal)) /\ UNCHANGED <<images, sent>>
                ELSE Fail(c, StatusError(r))
           ELSE /\ Finish(c, Return(ScanGroups(Get(r.body, "property_groups", <<>>))))
                /\ UNCHANGED <<images, sent>>

\* set_caption taking 409 for success as delete_caption does
PropertiesOverwriteResponseTolerant(c) ==
    /\ pc[c] = "wait_data"
    /\ op[c].name = "set_caption"
    /\ \E r \in Raised \cup NonSuccess \cup Success({<<>>}) :
        /\ Received(c, r)
        /\ IF r.exc # "" THEN Fail(c, Except(r.exc, RequestFailedMsg))
           ELSE IF r.status_code \notin {_SUCCESS_CODE, _NOT_FOUND_CODE}
           THEN Fail(c, StatusError(r))
           ELSE Finish(c, Return(NoneVal)) /\ UNCHANGED <<images, sent>>

\* set_caption after the answer to properties/overwrite
PropertiesOverwriteResponse(c) ==
    /\ pc[c] = "wait_data"
    /\ op[c].name = "set_caption"
    /\ \E r \in Raised \cup NonSuccess \cup Success({<<>>}) :
        /\ Received(c, r)
        /\ IF r.exc # "" THEN Fail(c, Except(r.exc, RequestFailedMsg))
           ELSE IF r.status_code # _SUCCESS_CODE THEN Fail(c, StatusError(r))
           ELSE Finish(c, Return(NoneVal)) /\ UNCHANGED <<images, sent>>

\* delete_caption raising on 409 as on any other status
PropertiesRemoveResponseStrict(c) ==
    /\ pc[c] = "wait_data"
    /\ op[c].name = "delete_caption"
    /\ \E r \in Raised \cup NonSuccess \cup Success({<<>>}) :
        /\ Received(c, r)
        /\ IF r.exc # "" THEN Fail(c, Except(r.exc, RequestFailedMsg))
           ELSE IF r.status_code # _SUCCESS_CODE THEN Fail(c, StatusError(r))
           ELSE Finish(c, Return(NoneVal)) /\ UNCHANGED <<images, sent>>

\* delete_caption after the answer to properties/remove
PropertiesRemoveResponse(c) ==
    /\ pc[c] = "wait_data"
    /\ op[c].name = "delete_caption"
    /\ \E r \in Raised \cup NonSuccess \cup Success({<<>>}) :
        /\ Received(c, r)
        /\ IF r.exc # "" THEN Fail(c, Except(r.exc, RequestFailedMsg))
           ELSE IF r.status_code # _SUCCESS_CODE
           THEN IF r.status_code = _NOT_FOUND_CODE
                THEN Finish(c, Return(NoneVal)) /\ UNCHANGED <<images, sent>>
                ELSE Fail(c, StatusError(r))
           ELSE Finish(c, Return(NoneVal)) /\ UNCHANGED <<images, sent>>

----------------------------------------------------------------------------
(* One instance used by one caller at a time *)

SeqInstances == {1}
SeqCallers == {1}

Next ==
    \/ \E i \in SeqInstances : Construct(i)
    \/ \E c \in SeqCallers, i \in SeqInstances : list_photos(c, i)
    \/ \E c \in SeqCallers, i \in SeqInstances : get_photo(c, i)
    \/ \E c \in SeqCallers, i \in SeqInstances : get_caption(c, i)
    \/ \E c \in SeqCallers, i \in SeqInstances : set_caption(c, i)
    \/ \E c \in SeqCallers, i \in SeqInstances : delete_caption(c, i)
    \/ \E c \in SeqCallers : RefreshTokenResponse(c)
    \/ \E c \in SeqCallers : ListFolderResponse(c)
    \/ \E c \in SeqCallers : DownloadResponse(c)
    \/ \E c \in SeqCallers : PropertiesGetResponse(c)
    \/ \E c \in SeqCallers : PropertiesOverwriteResponse(c)
    \/ \E c \in SeqCallers : PropertiesRemoveResponse(c)

Spec == Init /\ [][Next]_vars

----------------------------------------------------------------------------
(* The backend selector: get_storage_backend under the environment          *)

Filesystem == <<"f", "i", "l", "e", "s", "y", "s", "t", "e", "m">>
S3 == <<"s", "3">>
Dropbox == <<"d", "r", "o", "p", "b", "o", "x">>

\* the upper-case letter of a lower-case letter, the character itself otherwise
UpperChar(ch) ==
    IF \E u \in DOMAIN ToLower : ToLower[u] = ch
    THEN CHOOSE u \in DOMAIN ToLower : ToLower[u] = ch
    ELSE ch

\* word in every letter case
RECURSIVE CaseVariants(_)
CaseVariants(word) ==
    IF word = <<>> THEN {<<>>}
    ELSE { <<ch>> \o rest : ch \in {Head(word), UpperChar(Head(word))},
                            rest \in CaseVariants(Tail(word)) }

\* the values STORAGE_BACKEND is given: the three names in every letter
\* case, the empty string, a name with a blank around it, a blank alone, an
\* unknown name
BackendValues ==
    CaseVariants(Filesystem) \cup CaseVariants(S3) \cup CaseVariants(Dropbox)
    \cup { <<>>, <<" ">> \o S3, Dropbox \o <<" ">>, <<" ">>, <<"F", "T", "P">> }

\* str.strip() of blanks
RECURSIVE Strip(_)
Strip(s) ==
    IF s # <<>> /\ Head(s) = " " THEN Strip(Tail(s))
    ELSE IF s # <<>> /\ s[Len(s)] = " " THEN Strip(SubSeq(s, 1, Len(s) - 1))
    ELSE s

\* the selector stripping the value before it lower-cases it
SelectBackendTrimming(env) ==
    LET name == Lower(Strip(Get(env, "STORAGE_BACKEND", Dropbox)))
    IN  IF name = Filesystem THEN Instance("FileSystemStorage")
        ELSE IF name = S3 THEN Instance("S3Storage")
        ELSE IF name \in {Dropbox, <<>>} THEN Instance("DropboxStorage")
        ELSE Raise("ValueError", "Unknown storage backend", 0, "")

\* the selector falling back to the default for a name it does not know
SelectBackendDefaulting(env) ==
    LET name == Lower(Get(env, "STORAGE_BACKEND", Dropbox))
    IN  IF name = Filesystem THEN Instance("FileSystemStorage")
        ELSE IF name = S3 THEN Instance("S3Storage")
        ELSE Instance("DropboxStorage")

\* the selector comparing the value as it stands
SelectBackendCaseSensitive(env) ==
    LET name == Get(env, "STORAGE_BACKEND", Dropbox)
    IN  IF name = Filesystem THEN Instance("FileSystemStorage")
        ELSE IF name = S3 THEN Instance("S3Storage")
        ELSE IF name \in {Dropbox, <<>>} THEN Instance("DropboxStorage")
        ELSE Raise("ValueError", "Unknown storage backend", 0, "")

\* get_storage_backend() under environment env: the class of the backend
\* it returns, or the ValueError it raises
SelectBackend(env) ==
    LET name == Lower(Get(env, "STORAGE_BACKEND", Dropbox))
    IN  IF name = Filesystem THEN Instance("FileSystemStorage")
        ELSE IF name = S3 THEN Instance("S3Storage")
        ELSE IF name \in {Dropbox, <<>>} THEN Instance("DropboxStorage")
        ELSE Raise("ValueError", "Unknown storage backend", 0, "")

\* STORAGE_BACKEND is set to value
setenv(value) ==
    /\ environ' = ("STORAGE_BACKEND" :> value)
    /\ backend' = NoRes
    /\ UNCHANGED <<storageVars, appVars>>

\* STORAGE_BACKEND is removed from the environment
delenv ==
    /\ "STORAGE_BACKEND" \in DOMAIN environ
    /\ environ' = <<>>
    /\ backend' = NoRes
    /\ UNCHANGED <<storageVars, appVars>>

get_storage_backend ==
    /\ backend' = SelectBackend(environ)
    /\ UNCHANGED <<environ, storageVars, appVars>>

SelectorNext ==
    \/ \E value \in BackendValues : setenv(value)
    \/ delenv
    \/ get_storage_backend

SelectorSpec == Init /\ [][SelectorNext]_vars

----------------------------------------------------------------------------
(* Properties of the token gate *)

\* the operations some caller has started on instance i
OpsOn(i) == {c \in Callers : op[c] # NoOp /\ inst[c] = i}

\* none of app key, app secret and refresh token is missing (unset or empty)
HasCredentials(i) ==
    {app_key[i], app_secret[i], refresh_token[i]} \cap {NoneVal, ""} = {}

IsTokenRequest(rq) == rq.url = OAUTH_TOKEN_URL
IsDataRequest(rq) == rq.url \in DataEndpoints

\* answer r is a success status
Ok200(r) == r.exc = "" /\ r.status_code = _SUCCESS_CODE

\* C1: every request to a data endpoint carries as bearer a non-empty token,
\* which is the token cached on the instance and was stored there by a
\* refresh that returned; none is sent while the instance has no token.
C1_DataRequestsCarryCachedToken ==
    \A c \in Callers : \A k \in 1..Len(sent[c]) :
        IsDataRequest(sent[c][k]) =>
            /\ Truthy(token[inst[c]])
            /\ sent[c][k].bearer = token[inst[c]]
            /\ sent[c][k].bearer \in issued[inst[c]]
            /\ sent[c][k].bearer \in AccessTokens

\* a data request follows a refresh made by the same operation, and another
\* operation has sent one with the cached token
C1_Witness ==
    \E c \in Callers :
        /\ Len(sent[c]) >= 2
        /\ IsTokenRequest(sent[c][1])
        /\ IsDataRequest(sent[c][2])
        /\ sent[c][2].bearer = FreshToken(inst[c], 2)
        /\ pc[c] = "wait_data"

\* C2: on an instance lacking one of the three credentials every operation
\* fails with the credentials error and no HTTP request is ever sent.
C2_MissingCredentialsNoRequest ==
    \A i \in Instances : (constructed[i] /\ ~HasCredentials(i)) =>
        /\ tokenReqs[i] = 0
        /\ \A c \in OpsOn(i) :
              /\ sent[c] = <<>>
              /\ req[c] = NoReq
              /\ pc[c] = "idle"
              /\ res[c] = Raise(DropboxStorageError, CredentialsMsg, 0, "")

\* exactly the refresh token is missing and two operations have failed
C2_Witness ==
    \E c \in Callers :
        /\ Truthy(app_key[inst[c]]) /\ Truthy(app_secret[inst[c]])
        /\ refresh_token[inst[c]] = NoneVal
        /\ nops[inst[c]] = 2
        /\ op[c].name = "set_caption"
        /\ res[c].msg = CredentialsMsg

\* C3 as stated: until some remote call of the instance has succeeded, at
\* most one request has gone to the token endpoint.
C3_AtMostOneRefreshBeforeSuccess ==
    \A i \in Instances : ~succeeded[i] => tokenReqs[i] <= 1

TokenRequestsOf(c) == {k \in 1..Len(sent[c]) : IsTokenRequest(sent[c][k])}

\* C3 amended: an operation sends at most one refresh request, and the
\* refresh requests of an instance number at most one more than its failed
\* refreshes (a refresh is requested only while no token is cached).
C3_RefreshOnlyAfterFailures ==
    /\ \A i \in Instances : tokenReqs[i] <= refreshFailed[i] + 1
    /\ \A c \in Callers : TokenRequestsOf(c) \subseteq {1}

\* a second refresh request has followed a failed one and has succeeded
C3_Witness ==
    \E i \in Instances :
        tokenReqs[i] = 2 /\ refreshFailed[i] = 1 /\ Truthy(token[i])

\* C4: once a token is cached on an instance no step sends another request
\* to the token endpoint for it, and no step changes the token.
C4_CachedTokenNeverRefreshed ==
    [][\A i \in Instances :
          Truthy(token[i]) => (token'[i] = token[i] /\ tokenReqs'[i] = tokenReqs[i])]_vars

\* an operation that started with the token cached has failed on a 401
C4_Witness ==
    \E c \in Callers :
        /\ pc[c] = "idle"
        /\ Len(sent[c]) = 1 /\ IsDataRequest(sent[c][1])
        /\ resps[c][1].status_code = 401
        /\ nops[inst[c]] = 2
        /\ token[inst[c]] = sent[c][1].bearer

\* the token endpoint answered r with a non-200 status, or with 200 and no
\* access_token field
RefreshRefused(r) ==
    /\ r.exc = ""
    /\ \/ r.status_code # _SUCCESS_CODE
       \/ "access_token" \notin DOMAIN r.body

\* C5: an operation whose refresh was refused fails with the 'failed to
\* obtain access token' error, has sent nothing but the refresh request, and
\* leaves the instance without a token.
C5_RefusedRefreshStopsOperation ==
    \A c \in Callers :
        (/\ sent[c] # <<>> /\ IsTokenRequest(sent[c][1])
         /\ resps[c] # <<>> /\ RefreshRefused(resps[c][1])) =>
            /\ pc[c] = "idle"
            /\ res[c].kind = "error"
            /\ res[c].type = DropboxStorageError
            /\ res[c].msg = TokenMsg
            /\ Len(sent[c]) = 1
            /\ ~Truthy(token[inst[c]])

\* the token endpoint answered 200 without an access_token field
C5_Witness ==
    \E c \in Callers :
        /\ Len(resps[c]) = 1 /\ IsTokenRequest(sent[c][1])
        /\ Ok200(resps[c][1])
        /\ "access_token" \notin DOMAIN resps[c][1].body
        /\ res[c].msg = TokenMsg

\* C6: a data call answered with a non-200 status leaves the cached token as
\* it was, and the operation started next on that instance sends its data
\* request with that same token, without a refresh request.
C6_RejectedTokenStaysCached ==
    [][\A c \in Callers :
          LET i == inst[c] IN
          /\ (/\ pc[c] = "wait_data"
              /\ Len(resps'[c]) = Len(resps[c]) + 1
              /\ ~Ok200(resps'[c][Len(resps'[c])]))
                => token'[i] = token[i]
          /\ (/\ pc[c] = "idle" /\ pc'[c] # "idle" /\ inst'[c] = i
              /\ res[c].kind = "error" /\ res[c].msg = ApiErrorMsg)
                => /\ pc'[c] = "wait_data"
                   /\ req'[c].bearer = token[i]
                   /\ Truthy(token[i])
                   /\ token'[i] = token[i]
                   /\ tokenReqs'[i] = tokenReqs[i]]_vars

\* after a refresh and a 401 on the data call, the next operation has its
\* data request in flight with the token of that refresh
C6_Witness ==
    \E c \in Callers :
        /\ pc[c] = "wait_data"
        /\ unauthorized[inst[c]]
        /\ resps[c] = <<>>
        /\ tokenReqs[inst[c]] = 1
        /\ Len(sent[c]) = 1
        /\ sent[c][1].bearer = token[inst[c]]

----------------------------------------------------------------------------
(* Properties of the outbound calls of one operation *)

\* answer number k of the caller's operation is a failed call: an exception,
\* or a status that is neither 200 nor one of the two translated 409s
FailedCall(c, k) ==
    LET r == resps[c][k] IN
    \/ r.exc # ""
    \/ /\ r.status_code # _SUCCESS_CODE
       /\ ~ (/\ r.status_code = _NOT_FOUND_CODE
             /\ sent[c][k].url \in {_DROPBOX_PROPERTIES_GET_URL, _DROPBOX_PROPERTIES_REMOVE_URL})

FirstDataUrls == DataEndpoints \ {_DROPBOX_LIST_FOLDER_CONTINUE_URL}

\* C7: every request of an operation but the last has been answered, and
\* answered with success; the refresh request and the first data request are
\* sent at most once; each continuation request follows its own page that
\* announced more; the first failed call ends the operation with an error.
C7_NoRetries ==
    \A c \in Callers :
        /\ Len(sent[c]) = Len(resps[c]) + (IF pc[c] = "idle" THEN 0 ELSE 1)
        /\ Cardinality(TokenRequestsOf(c)) <= 1
        /\ Cardinality({k \in 1..Len(sent[c]) : sent[c][k].url \in FirstDataUrls}) <= 1
        /\ \A k \in 2..Len(sent[c]) : Ok200(resps[c][k - 1])
        /\ \A k \in 1..Len(sent[c]) :
              sent[c][k].url = _DROPBOX_LIST_FOLDER_CONTINUE_URL =>
                  /\ k >= 2
                  /\ sent[c][k - 1].url # OAUTH_TOKEN_URL
                  /\ Get(resps[c][k - 1].body, "has_more", FALSE)
        /\ \A k \in 1..Len(resps[c]) :
              FailedCall(c, k) =>
                  /\ k = Len(sent[c])
                  /\ pc[c] = "idle"
                  /\ res[c].kind = "error"

\* a listing has failed on its second continuation page
C7_Witness ==
    \E c \in Callers :
        /\ op[c].name = "list_photos"
        /\ Len(DataResps(c)) = 3
        /\ FailedCall(c, Len(resps[c]))
        /\ res[c].kind = "error"

----------------------------------------------------------------------------
(* Properties of the listing *)

\* the pages list_photos has received, in order
Pages(c) == [k \in 1..Len(DataResps(c)) |-> DataResps(c)[k].body]

RECURSIVE Concat(_)
Concat(seqs) == IF seqs = <<>> THEN <<>> ELSE Head(seqs) \o Concat(Tail(seqs))

\* every entry the remote has reported, in page order
AllEntries(c) == Concat([k \in 1..Len(Pages(c)) |-> Get(Pages(c)[k], "entries", <<>>)])

\* list_photos has returned
Listed(c) == op[c].name = "list_photos" /\ pc[c] = "idle" /\ res[c].kind = "ok"

Range(f) == {f[x] : x \in DOMAIN f}

ImageSuffixes ==
    { <<".", "j", "p", "g">>, <<".", "j", "p", "e", "g">>, <<".", "p", "n", "g">> }

\* the path ends in .jpg, .jpeg or .png, in any letter case
EndsInImageSuffix(path) ==
    \E suf \in ImageSuffixes :
        /\ Len(path) >= Len(suf)
        /\ Lower(SubSeq(path, Len(path) - Len(suf) + 1, Len(path))) = suf

\* C8 as stated: what list_photos returns is exactly the file entries whose
\* display path ends in .jpg, .jpeg or .png in any letter case (each as its
\* path without leading slashes), whatever the order of the entries.
C8_ExactlyImageFiles ==
    \A c \in Callers : Listed(c) =>
        Range(res[c].value) =
            { LStrip(e["path_display"]) :
                e \in { x \in Range(AllEntries(c)) :
                          /\ Get(x, ".tag", NoneVal) = "file"
                          /\ EndsInImageSuffix(Get(x, "path_display", <<>>)) } }

\* entry e passes the filter of list_photos
Passes(e) ==
    /\ Get(e, ".tag", NoneVal) = "file"
    /\ image_pattern_search(Get(e, "path_display", <<>>))

\* the passing entries of seq, in order, each as its identifier
Identifiers_of(seq) ==
    LET kept == SelectSeq(seq, Passes)
    IN  [k \in 1..Len(kept) |-> LStrip(kept[k]["path_display"])]

\* C9: what list_photos returns is the passing entries of all its pages, in
\* page order and in entry order within each page, each exactly once.
C9_ConcatenationInOrder ==
    \A c \in Callers : Listed(c) => res[c].value = Identifiers_of(AllEntries(c))

\* two pages, each contributing one identifier, the two being different
C9_Witness ==
    \E c \in Callers :
        /\ Listed(c)
        /\ Len(Pages(c)) = 2
        /\ Len(FilterEntries(Pages(c)[1]["entries"])) = 1
        /\ Len(FilterEntries(Pages(c)[2]["entries"])) = 1
        /\ Len(res[c].value) = 2
        /\ res[c].value[1] # res[c].value[2]

\* C10: a continuation request is sent only once the page before it has
\* been received, its body is exactly the cursor of that page, and nothing is
\* requested after a page that announces no more.
C10_SequentialPagination ==
    \A c \in Callers : op[c].name = "list_photos" =>
        LET first == Len(resps[c]) - Len(DataResps(c))
        IN  \A n \in 1..Len(Pages(c)) :
               LET rq == first + n + 1 IN
               /\ (rq <= Len(sent[c])) =>
                     /\ sent[c][rq].url = _DROPBOX_LIST_FOLDER_CONTINUE_URL
                     /\ Ok200(DataResps(c)[n])
                     /\ Get(Pages(c)[n], "has_more", FALSE)
                     /\ DOMAIN sent[c][rq].json = {"cursor"}
                     /\ sent[c][rq].json.cursor = Pages(c)[n]["cursor"]
               /\ (Ok200(DataResps(c)[n]) /\ ~Get(Pages(c)[n], "has_more", FALSE)) =>
                     /\ Len(sent[c]) = first + n
                     /\ pc[c] = "idle"

\* the third page is being requested with the cursor of the second, which
\* differs from the cursor of the first
C10_Witness ==
    \E c \in Callers :
        /\ op[c].name = "list_photos"
        /\ pc[c] = "wait_data"
        /\ Len(Pages(c)) = 2
        /\ Pages(c)[1]["cursor"] # Pages(c)[2]["cursor"]
        /\ req[c].json.cursor = Pages(c)[2]["cursor"]

\* C11: a listing one of whose page requests was answered with a non-200
\* status or failed at transport level has ended with an error and has
\* returned no identifiers, however many pages had succeeded before.
C11_ListingAllOrNothing ==
    \A c \in Callers : op[c].name = "list_photos" =>
        \A k \in 1..Len(DataResps(c)) :
            ~Ok200(DataResps(c)[k]) =>
                /\ k = Len(DataResps(c))
                /\ pc[c] = "idle"
                /\ res[c].kind = "error"
                /\ res[c].value = NoValue

\* a continuation was answered 401 after a first page that had contributed
\* an identifier
C11_Witness ==
    \E c \in Callers :
        /\ op[c].name = "list_photos"
        /\ Len(DataResps(c)) = 2
        /\ Ok200(DataResps(c)[1])
        /\ FilterEntries(Pages(c)[1]["entries"]) # <<>>
        /\ DataResps(c)[2].status_code = 401
        /\ res[c].kind = "error"

\* C12 as stated: on an instance whose root is /photos, get_photo called with
\* an identifier the listing just returned requests the download of the
\* display path of a listed entry that gave that identifier.
C12_ListedIdentifiersDownloadSamePath ==
    [][\A c \in Callers :
          (/\ Listed(c)
           /\ base_path[inst[c]] = <<"/">> \o Photos
           /\ op'[c].name = "get_photo"
           /\ inst'[c] = inst[c]
           /\ pc'[c] = "wait_data"
           /\ op'[c].key \in Range(res[c].value))
             => \E e \in Range(AllEntries(c)) :
                   /\ Passes(e)
                   /\ LStrip(e["path_display"]) = op'[c].key
                   /\ req'[c].data.path = e["path_display"]]_vars

----------------------------------------------------------------------------
(* Properties of the single-request operations *)

\* the answer to the caller's data request, once it is there
Answered(c) == Len(DataResps(c)) >= 1

Answer(c) == DataResps(c)[1]

\* answer r is a status other than 200
NonSuccessStatus(r) == r.exc = "" /\ r.status_code # _SUCCESS_CODE

\* outcome out is the status error for status st
IsStatusError(out, st) ==
    /\ out.kind = "error"
    /\ out.type = DropboxStorageError
    /\ out.msg = ApiErrorMsg
    /\ out.status = st

\* C13: the only data request of get_photo is a download of "/photos/" and
\* the identifier, whatever the root of the instance; on 200 it returns the
\* payload of the answer, on every other status (409 too) it fails with the
\* status error.
C13_GetPhoto ==
    \A c \in Callers : op[c].name = "get_photo" =>
        /\ \A k \in 1..Len(sent[c]) :
              IsDataRequest(sent[c][k]) =>
                  /\ sent[c][k].url = _DROPBOX_DOWNLOAD_URL
                  /\ sent[c][k].data.path = <<"/">> \o Photos \o <<"/">> \o op[c].key
        /\ Answered(c) =>
              /\ pc[c] = "idle"
              /\ Ok200(Answer(c)) =>
                    res[c].kind = "ok" /\ res[c].value = Answer(c).body["content"]
              /\ NonSuccessStatus(Answer(c)) =>
                    IsStatusError(res[c], Answer(c).status_code)

\* on an instance whose root is empty a download was answered 409 and
\* get_photo has failed with that status
C13_Witness ==
    \E c \in Callers :
        /\ op[c].name = "get_photo"
        /\ base_path[inst[c]] = <<>>
        /\ Answered(c)
        /\ Answer(c).status_code = _NOT_FOUND_CODE
        /\ IsStatusError(res[c], 409)

\* the operation has returned None (get_caption without a caption, and the
\* plain return of set_caption and delete_caption)
ReturnedNone(c) == pc[c] = "idle" /\ res[c].kind = "ok" /\ res[c].value = NoneVal

\* property group prop is of the caption template, by id or by name
OfCaptionTemplate(prop) ==
    \/ ("template_id" \in DOMAIN prop /\ prop["template_id"] = "CaptionerPhotoTags")
    \/ ("template_name" \in DOMAIN prop /\ prop["template_name"] = "CaptionerPhotoTags")

\* the property groups of a properties/get answer
GroupsOf(r) == IF "property_groups" \in DOMAIN r.body THEN r.body["property_groups"] ELSE <<>>

\* C14: get_caption returns None when properties/get answers 409 and when it
\* answers 200 without a group of the caption template; on every other
\* non-200 status it fails with the status error of that status.
C14_GetCaptionAbsent ==
    \A c \in Callers : (op[c].name = "get_caption" /\ Answered(c)) =>
        LET r == Answer(c) IN
        /\ pc[c] = "idle"
        /\ (r.exc = "" /\ r.status_code = 409) => ReturnedNone(c)
        /\ (Ok200(r) /\ \A g \in 1..Len(GroupsOf(r)) : ~OfCaptionTemplate(GroupsOf(r)[g]))
              => ReturnedNone(c)
        /\ (NonSuccessStatus(r) /\ r.status_code # 409) => IsStatusError(res[c], r.status_code)

\* properties/get answered 409 and get_caption returned None
C14_Witness ==
    \E c \in Callers :
        /\ op[c].name = "get_caption"
        /\ Answered(c)
        /\ Answer(c).status_code = 409
        /\ ReturnedNone(c)

\* the fields of property group prop
FieldsOf(prop) == IF "fields" \in DOMAIN prop THEN prop["fields"] ELSE <<>>

\* the positions <<g, f>> of the fields named caption in groups of the
\* caption template
CaptionFields(groups) ==
    UNION { { <<g, f>> : f \in { h \in 1..Len(FieldsOf(groups[g])) :
                                   FieldsOf(groups[g])[h]["name"] = "caption" } } :
            g \in { h \in 1..Len(groups) : OfCaptionTemplate(groups[h]) } }

\* position p comes no later than position q in scan order
ScannedBefore(p, q) == p[1] < q[1] \/ (p[1] = q[1] /\ p[2] <= q[2])

\* C15: on 200 get_caption returns the value of the first field named
\* caption among the groups of the caption template (matched by id or by
\* name), in scan order, and None when there is none: other templates and
\* other field names never supply it, and a group of the template without a
\* caption field is passed over.
C15_GetCaptionValue ==
    \A c \in Callers : (op[c].name = "get_caption" /\ Answered(c) /\ Ok200(Answer(c))) =>
        LET groups == GroupsOf(Answer(c))
            hits   == CaptionFields(groups)
        IN  /\ pc[c] = "idle"
            /\ res[c].kind = "ok"
            /\ IF hits = {} THEN res[c].value = NoneVal
               ELSE \E p \in hits :
                       /\ \A q \in hits : ScannedBefore(p, q)
                       /\ res[c].value = groups[p[1]]["fields"][p[2]]["value"]

\* a group of the template without a caption field came first, a group
\* matched by name with the caption second, and the caption was returned
C15_Witness ==
    \E c \in Callers :
        /\ op[c].name = "get_caption" /\ Answered(c) /\ Ok200(Answer(c))
        /\ Len(GroupsOf(Answer(c))) = 2
        /\ OfCaptionTemplate(GroupsOf(Answer(c))[1])
        /\ CaptionFields(GroupsOf(Answer(c))) = {<<2, 2>>}
        /\ res[c].value = "by-name"

\* C16: delete_caption returns when properties/remove answers 200 or 409
\* and fails with the status error on every other status.
C16_DeleteCaption ==
    \A c \in Callers : (op[c].name = "delete_caption" /\ Answered(c)) =>
        LET r == Answer(c) IN
        /\ pc[c] = "idle"
        /\ (r.exc = "" /\ r.status_code \in {200, 409}) => ReturnedNone(c)
        /\ (r.exc = "" /\ r.status_code \notin {200, 409}) => IsStatusError(res[c], r.status_code)

\* properties/remove answered 409 and delete_caption returned
C16_Witness ==
    \E c \in Callers :
        /\ op[c].name = "delete_caption"
        /\ Answered(c)
        /\ Answer(c).status_code = 409
        /\ ReturnedNone(c)

\* C17: set_caption sends at most one data request, a properties/overwrite
\* whose one property group has the one field (caption, the given string);
\* it returns only on 200 and fails with the status error on every other
\* status, 409 included.
C17_SetCaption ==
    \A c \in Callers : op[c].name = "set_caption" =>
        /\ Cardinality({k \in 1..Len(sent[c]) : IsDataRequest(sent[c][k])}) <= 1
        /\ \A k \in 1..Len(sent[c]) :
              IsDataRequest(sent[c][k]) =>
                  /\ sent[c][k].url = _DROPBOX_PROPERTIES_OVERWRITE_URL
                  /\ Len(sent[c][k].json.property_groups) = 1
                  /\ sent[c][k].json.property_groups[1].fields
                        = << ("name" :> "caption") @@ ("value" :> op[c].caption) >>
        /\ (pc[c] = "idle" /\ res[c].kind = "ok") => (Answered(c) /\ Ok200(Answer(c)))
        /\ Answered(c) =>
              /\ pc[c] = "idle"
              /\ Ok200(Answer(c)) => ReturnedNone(c)
              /\ NonSuccessStatus(Answer(c)) => IsStatusError(res[c], Answer(c).status_code)

\* properties/overwrite answered 409 and set_caption failed with it
C17_Witness ==
    \E c \in Callers :
        /\ op[c].name = "set_caption"
        /\ op[c].caption = "hello"
        /\ Answered(c)
        /\ Answer(c).status_code = 409
        /\ IsStatusError(res[c], 409)

----------------------------------------------------------------------------
(* Properties of the errors *)

\* the last answer the caller's operation has received
LastAnswer(c) == resps[c][Len(resps[c])]

\* error `out` is an exception of the HTTP call or was raised from one
\* (its __cause__ is set)
FromTransport(out) == out.cause \in ExcKinds \/ out.type \in ExcKinds

\* C18: for every operation, and for the refresh call as for the data calls,
\* an error that ends the operation on a transport failure is, or carries as
\* its cause, the exception of the HTTP call, and an error that ends it on a
\* non-200 status is a storage error without a cause: the two can be told
\* apart.
C18_TransportAndStatusDistinct ==
    \A c \in Callers : (pc[c] = "idle" /\ resps[c] # <<>>) =>
        /\ LastAnswer(c).exc # "" =>
              (res[c].kind = "error" /\ FromTransport(res[c]))
        /\ (NonSuccessStatus(LastAnswer(c)) /\ res[c].kind = "error") =>
              (res[c].type = DropboxStorageError /\ ~FromTransport(res[c]))

\* a refresh request failed at transport level and the operation ended with
\* the storage error raised from the transport exception
C18_Witness ==
    \E c \in Callers :
        /\ pc[c] = "idle"
        /\ Len(resps[c]) = 1
        /\ IsTokenRequest(sent[c][1])
        /\ resps[c][1].exc = "RequestException"
        /\ res[c].type = DropboxStorageError
        /\ res[c].msg = TokenMsg
        /\ res[c].cause = "RequestException"

\* C19 as stated: whatever exception the HTTP call of get_caption or
\* set_caption raises, the operation fails with the storage error whose
\* message begins 'Dropbox API request failed'.
C19_AnyExceptionWrapped ==
    \A c \in Callers :
        (/\ op[c].name \in {"get_caption", "set_caption"}
         /\ Answered(c)
         /\ Answer(c).exc # "") =>
            /\ res[c].kind = "error"
            /\ res[c].type = DropboxStorageError
            /\ res[c].msg = RequestFailedMsg

----------------------------------------------------------------------------
(* Properties of the backend selector *)

\* s is word in some letter case
InSomeCase(s, word) ==
    /\ Len(s) = Len(word)
    /\ \A k \in 1..Len(word) : s[k] \in {word[k], UpperChar(word[k])}

\* STORAGE_BACKEND is set and is word in some letter case
Selects(word) ==
    /\ "STORAGE_BACKEND" \in DOMAIN environ
    /\ InSomeCase(environ["STORAGE_BACKEND"], word)

\* C20: called under an environment, the selector gives the filesystem
\* backend for 'filesystem' in any letter case, the S3 stub for 's3' in any
\* letter case, and the Dropbox backend for 'dropbox' in any letter case, for
\* the empty string and for an unset STORAGE_BACKEND; the environment alone
\* decides the result.
C20_SelectorCaseInsensitive ==
    backend # NoRes =>
        /\ Selects(Filesystem) => backend = Instance("FileSystemStorage")
        /\ Selects(S3) => backend = Instance("S3Storage")
        /\ (Selects(Dropbox) \/ Selects(<<>>) \/ environ = <<>>)
              => backend = Instance("DropboxStorage")

\* the selector was called with STORAGE_BACKEND set to "FileSystem" and
\* gave the filesystem backend
C20_Witness ==
    /\ "STORAGE_BACKEND" \in DOMAIN environ
    /\ environ["STORAGE_BACKEND"] = <<"F", "i", "l", "e", "S", "y", "s", "t", "e", "m">>
    /\ backend = Instance("FileSystemStorage")

\* the selector has been called with STORAGE_BACKEND set to a value
Selected == backend # NoRes /\ "STORAGE_BACKEND" \in DOMAIN environ

\* the selector failed with the 'unknown storage backend' error and gave no
\* backend instance
UnknownBackend ==
    /\ backend.kind = "error"
    /\ backend.type = "ValueError"
    /\ backend.msg = "Unknown storage backend"
    /\ backend.value = NoValue

\* s begins or ends with a blank
Padded(s) == s # <<>> /\ (s[1] = " " \/ s[Len(s)] = " ")

\* C21 as stated: a known name with blanks around it selects what the bare
\* name selects, and a value of blanks alone selects the Dropbox backend.
C21_SelectorTrims ==
    Selected =>
        LET bare == Strip(environ["STORAGE_BACKEND"])
        IN  /\ InSomeCase(bare, Filesystem) => backend = Instance("FileSystemStorage")
            /\ InSomeCase(bare, S3) => backend = Instance("S3Storage")
            /\ (InSomeCase(bare, Dropbox) \/ bare = <<>>) => backend = Instance("DropboxStorage")

\* C21 amended: the selector does not trim: a value that begins or ends with
\* a blank, a known name with blanks around it and a value of blanks alone
\* included, selects nothing and fails with the 'unknown storage backend'
\* error.
C21_PaddedValueUnknown ==
    (Selected /\ Padded(environ["STORAGE_BACKEND"])) => UnknownBackend

\* the selector was called with " s3" and failed
C21_Witness ==
    /\ Selected
    /\ environ["STORAGE_BACKEND"] = <<" ", "s", "3">>
    /\ UnknownBackend

\* the names the selector knows, the empty string among them
KnownNames == {Filesystem, S3, Dropbox, <<>>}

\* C22: for a value that is none of the known names in any letter case the
\* selector fails with the 'unknown storage backend' error and returns no
\* backend instance.
C22_UnknownValueFails ==
    (Selected /\ \A word \in KnownNames : ~InSomeCase(environ["STORAGE_BACKEND"], word))
        => UnknownBackend

\* the selector was called with "FTP" and failed
C22_Witness ==
    /\ Selected
    /\ environ["STORAGE_BACKEND"] = <<"F", "T", "P">>
    /\ UnknownBackend

----------------------------------------------------------------------------
(* The filesystem backend and the S3 stub (classes FileSystemStorage and   *)
(* S3Storage).  Neither sends a request: an operation is one step.  The    *)
(* backend object the callers use is `backend`; what the operating system  *)
(* answered to the operation is logged in resps.                           *)

FileSystemStorage == "FileSystemStorage"
S3Storage == "S3Storage"

NotImplementedError == "NotImplementedError"
NotImplementedMsg == "not implemented"

\* a directory entry as iterdir() yields it
DirEntry(name, is_file) == [name |-> name, is_file |-> is_file]

DirEntries == { DirEntry("a.jpg", TRUE), DirEntry("b.txt", TRUE), DirEntry("d", FALSE) }

\* what base_path.iterdir() can give: FileNotFoundError, or the entries of
\* the directory in the order the operating system lists them
Directories ==
    { [exists |-> FALSE, entries |-> <<>>] } \cup
    { [exists |-> TRUE, entries |-> es] :
        es \in { s \in SeqsUpTo(DirEntries, MaxEntries) :
                   \A j, k \in 1..Len(s) : s[j] = s[k] => j = k } }

\* what file_path.read_bytes() can give
FileReads == { Return(<<"bytes">>), Raise("FileNotFoundError", "", 0, ""),
               Raise("IsADirectoryError", "", 0, "") }

\* [p.name for p in entries if p.is_file()]
RECURSIVE FileNames(_)
FileNames(entries) ==
    IF entries = <<>> THEN <<>>
    ELSE (IF entries[1].is_file THEN <<entries[1].name>> ELSE <<>>)
         \o FileNames(Tail(entries))

\* FileSystemStorage.__init__ / S3Storage.__init__: the backend object the
\* callers are handed
StubInit(cls) ==
    /\ backend = NoRes
    /\ backend' = Instance(cls)
    /\ UNCHANGED <<environ, storageVars, appVars>>

FileSystemStorage_init == StubInit(FileSystemStorage)

S3Storage_init == StubInit(S3Storage)

\* caller c runs operation o on the backend of class cls; the operating
\* system answered `got` and the operation ended with `out`
StubCall(c, cls, o, got, out) ==
    /\ backend = Instance(cls)
    /\ pc[c] = "idle"
    /\ op' = [op EXCEPT ![c] = o]
    /\ resps' = [resps EXCEPT ![c] = got]
    /\ res' = [res EXCEPT ![c] = out]
    /\ UNCHANGED <<constructed, app_key, app_secret, refresh_token, base_path, token,
                   nops, tokenReqs, refreshFailed, issued, succeeded, unauthorized,
                   pc, inst, req, images, sent, selVars, appVars>>

\* the body of the unimplemented operations
NotImplemented(c, cls, o) ==
    StubCall(c, cls, o, <<>>, Raise(NotImplementedError, NotImplementedMsg, 0, ""))

FileSystemStorage_list_photos(c) ==
    \E dir \in Directories :
        StubCall(c, FileSystemStorage, Op("list_photos", <<>>, ""), <<dir>>,
                 IF dir.exists THEN Return(FileNames(dir.entries)) ELSE Return(<<>>))

FileSystemStorage_get_photo(c) ==
    \E identifier \in Identifiers, read \in FileReads :
        StubCall(c, FileSystemStorage, Op("get_photo", identifier, ""), <<read>>, read)

FileSystemStorage_get_caption(c) ==
    \E object_key \in Identifiers :
        NotImplemented(c, FileSystemStorage, Op("get_caption", object_key, ""))

FileSystemStorage_set_caption(c) ==
    \E object_key \in Identifiers, caption \in Captions :
        NotImplemented(c, FileSystemStorage, Op("set_caption", object_key, caption))

FileSystemStorage_delete_caption(c) ==
    \E object_key \in Identifiers :
        NotImplemented(c, FileSystemStorage, Op("delete_caption", object_key, ""))

\* the S3 stub answering a listing with the empty list
S3Storage_list_photosEmpty(c) ==
    StubCall(c, S3Storage, Op("list_photos", <<>>, ""), <<>>, Return(<<>>))

S3Storage_list_photos(c) ==
    NotImplemented(c, S3Storage, Op("list_photos", <<>>, ""))

S3Storage_get_photo(c) ==
    \E identifier \in Identifiers :
        NotImplemented(c, S3Storage, Op("get_photo", identifier, ""))

S3Storage_get_caption(c) ==
    \E object_key \in Identifiers :
        NotImplemented(c, S3Storage, Op("get_caption", object_key, ""))

S3Storage_set_caption(c) ==
    \E object_key \in Identifiers, caption \in Captions :
        NotImplemented(c, S3Storage, Op("set_caption", object_key, caption))

S3Storage_delete_caption(c) ==
    \E object_key \in Identifiers :
        NotImplemented(c, S3Storage, Op("delete_caption", object_key, ""))

StubNext ==
    \/ FileSystemStorage_init
    \/ S3Storage_init
    \/ \E c \in Callers :
        \/ FileSystemStorage_list_photos(c)
        \/ FileSystemStorage_get_photo(c)
        \/ FileSystemStorage_get_caption(c)
        \/ FileSystemStorage_set_caption(c)
        \/ FileSystemStorage_delete_caption(c)
        \/ S3Storage_list_photos(c)
        \/ S3Storage_get_photo(c)
        \/ S3Storage_get_caption(c)
        \/ S3Storage_set_caption(c)
        \/ S3Storage_delete_caption(c)

StubSpec == Init /\ [][StubNext]_vars

----------------------------------------------------------------------------
(* C23 *)

CaptionOps == {"get_caption", "set_caption", "delete_caption"}
AllOps == {"list_photos", "get_photo"} \cup CaptionOps

\* caller c has called an operation and it failed with NotImplementedError
FailedNotImplemented(c) ==
    res[c].kind = "error" /\ res[c].type = NotImplementedError

\* C23: on the filesystem backend every call of get_caption, set_caption and
\* delete_caption has failed with a not-implemented error, and on the S3 stub
\* every call of any of the five operations has, whatever the arguments and
\* whatever was called before.
C23_CapabilityGap ==
    \A c \in Callers :
        /\ (backend = Instance(FileSystemStorage) /\ op[c].name \in CaptionOps)
              => FailedNotImplemented(c)
        /\ (backend = Instance(S3Storage) /\ op[c].name \in AllOps)
              => FailedNotImplemented(c)

C23_Witness ==
    /\ backend = Instance(S3Storage)
    /\ op[1].name = "list_photos" /\ FailedNotImplemented(1)
    /\ op[2] = Op("set_caption", <<"a", ".", "j", "p", "g">>, "hello")
    /\ FailedNotImplemented(2)

----------------------------------------------------------------------------
(* C24 *)

PropertiesUrls ==
    {_DROPBOX_PROPERTIES_GET_URL, _DROPBOX_PROPERTIES_OVERWRITE_URL,
     _DROPBOX_PROPERTIES_REMOVE_URL}

\* the object path request rq names
ObjectPath(rq) == IF rq.url = _DROPBOX_DOWNLOAD_URL THEN rq.data.path ELSE rq.json.path

\* every identifier list_photos has returned lacks a leading slash
ListedWithoutSlash ==
    \A c \in Callers :
        Listed(c) => \A id \in Range(res[c].value) : id = <<>> \/ id[1] # "/"

\* every object path get_photo and the caption operations have sent begins
\* with a slash
SentPathsWithSlash ==
    \A c \in Callers : \A k \in 1..Len(sent[c]) :
        sent[c][k].url \in PropertiesUrls \cup {_DROPBOX_DOWNLOAD_URL}
            => /\ ObjectPath(sent[c][k]) # <<>>
               /\ ObjectPath(sent[c][k])[1] = "/"

\* C24: every identifier returned by list_photos has no leading slash; every
\* object path sent by get_photo, get_caption, set_caption and delete_caption
\* begins with a slash; and a caption operation called with an identifier the
\* listing just returned sends the display path of a listed entry that passed
\* the filter.
C24_SlashDiscipline ==
    /\ [](ListedWithoutSlash /\ SentPathsWithSlash)
    /\ [][\A c \in Callers :
            (/\ Listed(c)
             /\ op'[c].name \in CaptionOps
             /\ inst'[c] = inst[c]
             /\ pc'[c] = "wait_data"
             /\ op'[c].key \in Range(res[c].value))
               => \E e \in Range(AllEntries(c)) :
                     /\ Passes(e)
                     /\ req'[c].json.path = e["path_display"]
                     /\ <<"/">> \o op'[c].key = e["path_display"]]_vars

C24_Witness ==
    \E c \in Callers :
        /\ op[c] = Op("set_caption",
                      <<"p", "h", "o", "t", "o", "s", "/", "a", ".", "j", "p", "g">>, "hello")
        /\ pc[c] = "wait_data"
        /\ nops[inst[c]] = 2
        /\ succeeded[inst[c]]
        /\ req[c].json.path = <<"/", "p", "h", "o", "t", "o", "s", "/", "a", ".", "j", "p", "g">>

----------------------------------------------------------------------------
(* One instance shared by two concurrent callers: the operations of the two *)
(* callers interleave at their requests and responses.  The arguments and   *)
(* the remote's answers are drawn from smaller sets than above: one object, *)
(* listings without entries, property answers without groups, and each     *)
(* caller runs at most one operation.                                      *)

\* the instances, arguments and answers of the concurrent runs
SharedUse ==
    /\ \A i \in Instances :
          constructed[i] =>
              /\ nops[i] <= Cardinality(Callers)
              /\ base_path[i] = <<>>
              /\ app_key[i] \in {"set", NoneVal}
              /\ app_secret[i] = "set"
              /\ refresh_token[i] = "set"
    /\ \A c \in Callers :
          /\ op[c].key \in {<<>>, SharedKey}
          /\ op[c].name = "set_caption" => op[c].caption = "hello"
          /\ \A k \in 1..Len(resps[c]) :
                LET body == resps[c][k].body
                IN  /\ resps[c][k].exc # "Exception"
                    /\ Get(body, "entries", <<>>) = <<>>
                    /\ Get(body, "property_groups", <<>>) = <<>>
                    /\ Get(body, "content", "bytes-1") = "bytes-1"

ConcurrentNext ==
    \/ \E i \in SeqInstances : Construct(i) /\ SharedUse'
    \/ \E c \in Callers, i \in SeqInstances : list_photos(c, i) /\ SharedUse'
    \/ \E c \in Callers, i \in SeqInstances : get_photo(c, i) /\ SharedUse'
    \/ \E c \in Callers, i \in SeqInstances : get_caption(c, i) /\ SharedUse'
    \/ \E c \in Callers, i \in SeqInstances : set_caption(c, i) /\ SharedUse'
    \/ \E c \in Callers, i \in SeqInstances : delete_caption(c, i) /\ SharedUse'
    \/ \E c \in Callers : RefreshTokenResponse(c) /\ SharedUse'
    \/ \E c \in Callers : ListFolderResponse(c) /\ SharedUse'
    \/ \E c \in Callers : DownloadResponse(c) /\ SharedUse'
    \/ \E c \in Callers : PropertiesGetResponse(c) /\ SharedUse'
    \/ \E c \in Callers : PropertiesOverwriteResponse(c) /\ SharedUse'
    \/ \E c \in Callers : PropertiesRemoveResponse(c) /\ SharedUse'

ConcurrentSpec == Init /\ [][ConcurrentNext]_vars

----------------------------------------------------------------------------
(* C25 *)

\* the callers whose refresh request for instance i is in flight
RefreshesInFlight(i) ==
    {c \in Callers : pc[c] = "wait_token" /\ inst[c] = i /\ IsTokenRequest(req[c])}

\* C25: on an instance shared by concurrent callers, a caller that starts an
\* operation while the token is absent sends a refresh request of its own,
\* whether or not a refresh of the instance is already in flight: the number
\* of refresh requests in flight goes up by one, so that two callers starting
\* while the token is absent have two refresh requests in flight at once.
C25_FirstRefreshUnguarded ==
    [][\A c \in Callers, i \in Instances :
          (/\ pc[c] = "idle"
           /\ pc'[c] # "idle"
           /\ inst'[c] = i
           /\ ~Truthy(token[i]))
             => /\ IsTokenRequest(req'[c])
                /\ RefreshesInFlight(i)' = RefreshesInFlight(i) \cup {c}
                /\ tokenReqs'[i] = tokenReqs[i] + 1]_vars

C25_Witness ==
    /\ RefreshesInFlight(1) = {1, 2}
    /\ token[1] = NoneVal
    /\ tokenReqs[1] = 2
    /\ refreshFailed[1] = 0

----------------------------------------------------------------------------
(* Two instances, each used by its own caller for a first call; the callers *)
(* run concurrently                                                        *)

\* caller c is the only user of instance c and calls it once
FirstCalls == \A i \in Instances : nops[i] <= 1

InstancesNext ==
    \/ \E i \in Instances : Construct(i) /\ SharedUse'
    \/ \E c \in Callers : list_photos(c, c) /\ SharedUse' /\ FirstCalls'
    \/ \E c \in Callers : get_photo(c, c) /\ SharedUse' /\ FirstCalls'
    \/ \E c \in Callers : get_caption(c, c) /\ SharedUse' /\ FirstCalls'
    \/ \E c \in Callers : set_caption(c, c) /\ SharedUse' /\ FirstCalls'
    \/ \E c \in Callers : delete_caption(c, c) /\ SharedUse' /\ FirstCalls'
    \/ \E c \in Callers : RefreshTokenResponse(c) /\ SharedUse'
    \/ \E c \in Callers : ListFolderResponse(c) /\ SharedUse'
    \/ \E c \in Callers : DownloadResponse(c) /\ SharedUse'
    \/ \E c \in Callers : PropertiesGetResponse(c) /\ SharedUse'
    \/ \E c \in Callers : PropertiesOverwriteResponse(c) /\ SharedUse'
    \/ \E c \in Callers : PropertiesRemoveResponse(c) /\ SharedUse'

InstancesSpec == Init /\ [][InstancesNext]_vars

----------------------------------------------------------------------------
(* C26 *)

\* C26: the token is kept per instance: the step in which one instance's
\* refresh is answered leaves the token of every other instance as it was,
\* an instance's token is one its own refresh stored, and every instance
\* that has made its first call with credentials has sent one refresh
\* request of its own, whatever the other instances hold.
C26_TokenPerInstance ==
    /\ [](\A i \in Instances :
            /\ Truthy(token[i]) => token[i] \in issued[i]
            /\ (OpsOn(i) # {} /\ HasCredentials(i)) => tokenReqs[i] = 1)
    /\ [][\A c \in Callers :
            (pc[c] = "wait_token" /\ pc'[c] # "wait_token")
               => \A j \in Instances \ {inst[c]} : token'[j] = token[j]]_vars

C26_Witness ==
    /\ token[1] = FreshToken(1, 1)
    /\ token[2] = FreshToken(2, 1)
    /\ tokenReqs[1] = 1
    /\ tokenReqs[2] = 1
    /\ \A c \in Callers : inst[c] = c /\ pc[c] = "wait_data"

----------------------------------------------------------------------------
(* C27 *)

\* list_photos of caller c has failed, and not on an exception of
\* requests.post outside the transport library's hierarchy
ListingFailed(c) ==
    /\ op[c].name = "list_photos"
    /\ pc[c] = "idle"
    /\ res[c].kind = "error"
    /\ \A k \in 1..Len(resps[c]) : resps[c][k].exc # "Exception"

\* C27 as stated: every failing outcome of list_photos is the typed storage
\* error; in particular a page answering 200 with has_more true and no cursor
\* makes list_photos fail with DropboxStorageError.
C27_ListingFailuresTyped ==
    \A c \in Callers : ListingFailed(c) => res[c].type = DropboxStorageError

----------------------------------------------------------------------------
(* Listings alone, with every request answered: requests.post is called    *)
(* with a timeout, so each call returns or raises.  What the pages hold is *)
(* checked above; here they are empty and only their number varies.        *)

\* the pages of these listings carry no entries
EmptyPages ==
    \A c \in Callers : \A k \in 1..Len(resps[c]) :
        Get(resps[c][k].body, "entries", <<>>) = <<>>

ListingNext ==
    \/ \E i \in SeqInstances : Construct(i)
    \/ \E c \in SeqCallers, i \in SeqInstances : list_photos(c, i)
    \/ \E c \in SeqCallers : RefreshTokenResponse(c)
    \/ \E c \in SeqCallers : ListFolderResponse(c) /\ EmptyPages'

\* the number of answers each caller's operation has received; every
\* response step adds one
answered == [c \in Callers |-> Len(resps[c])]

ListingSpec ==
    /\ Init
    /\ [][ListingNext]_vars
    /\ \A c \in SeqCallers :
          /\ WF_answered(RefreshTokenResponse(c))
          /\ WF_answered(ListFolderResponse(c) /\ EmptyPages')

----------------------------------------------------------------------------
(* C28 *)

\* the requests the caller's operation has sent to the data endpoints
DataRequests(c) == SelectSeq(sent[c], IsDataRequest)

\* the pages answered so far that reported has_more
PagesWithMore(c) ==
    {k \in 1..Len(DataResps(c)) :
        Ok200(DataResps(c)[k]) /\ Get(DataResps(c)[k].body, "has_more", FALSE)}

\* a listing that returned has sent list_folder once, then one continuation
\* for each page that reported has_more
OneRequestPerPage ==
    \A c \in Callers :
        Listed(c) =>
            /\ Len(DataRequests(c)) = 1 + Cardinality(PagesWithMore(c))
            /\ DataRequests(c)[1].url = _DROPBOX_LIST_FOLDER_URL
            /\ \A k \in 2..Len(DataRequests(c)) :
                  DataRequests(c)[k].url = _DROPBOX_LIST_FOLDER_CONTINUE_URL

\* a listing returns with the page that reports no more, and after a page
\* that reports more (with its cursor) it has the next continuation in
\* flight, however many pages came before
ReturnsAtLastPage ==
    \A c \in Callers :
        (op[c].name = "list_photos" /\ DataResps(c) # <<>>
            /\ Ok200(DataResps(c)[Len(DataResps(c))])) =>
            LET n    == Len(DataResps(c))
                page == DataResps(c)[n].body
            IN  IF Get(page, "has_more", FALSE)
                THEN "cursor" \in DOMAIN page =>
                        /\ pc[c] = "wait_data"
                        /\ req[c].url = _DROPBOX_LIST_FOLDER_CONTINUE_URL
                        /\ Len(DataRequests(c)) = n + 1
                ELSE Listed(c)

\* C28: list_photos returns when the remote reports has_more false, having
\* sent one list_folder request and one continuation per page that reported
\* has_more; every listing that is started ends when its requests are
\* answered and the pages end; and it goes on to the next page after every
\* page that reports more, with no bound of its own on the pages.
C28_ListingTerminates ==
    /\ [](OneRequestPerPage /\ ReturnsAtLastPage)
    /\ \A c \in SeqCallers :
          (op[c].name = "list_photos" /\ pc[c] # "idle") ~> (pc[c] = "idle")

C28_Witness ==
    \E c \in Callers :
        /\ Listed(c)
        /\ Len(DataResps(c)) = MaxPages
        /\ Cardinality(PagesWithMore(c)) = MaxPages - 1
        /\ Len(DataRequests(c)) = MaxPages

----------------------------------------------------------------------------
(* POST /rescan (src/app/main.py) over the table `photos`.  The storage     *)
(* backend's listing is an input of the request: a list of identifiers,    *)
(* repeats included, or an exception.                                      *)

ObjectKeys == {"a.jpg", "b.png", "c.webp"}

\* a row of table photos
Photo(id, object_key, caption) ==
    [id |-> id, object_key |-> object_key, caption |-> caption]

KeysOf(rows) == {rows[k].object_key : k \in 1..Len(rows)}

\* what the table can hold when a rescan arrives: ids ascending from 1,
\* object_key unique
Tables ==
    { [k \in 1..Len(keys) |-> Photo(k, keys[k], NoneVal)] :
        keys \in { s \in SeqsUpTo(ObjectKeys, MaxRows) :
                     \A j, k \in 1..Len(s) : s[j] = s[k] => j = k } }

\* what backend.list_photos() gives the request
Listings ==
    { Return(ids) : ids \in SeqsUpTo(ObjectKeys, MaxEntries) }
    \cup { Raise(DropboxStorageError, ApiErrorMsg, 401, "") }

\* PhotoDAO.list(limit, offset): the rows by id, `limit` of them from `offset`
PhotoDAO_list(rows, limit, offset) ==
    SubSeq(rows, offset + 1, IF offset + limit < Len(rows) THEN offset + limit ELSE Len(rows))

\* PhotoDAO.create(hash_, filename, caption=None) called with the positional
\* arguments args: without `filename` the call itself raises TypeError, and
\* with it Photo(hash=..., filename=...) does, class Photo having neither
\* column; no row is added either way
PhotoDAO_create(rows, args) == [rows |-> rows, exc |-> "TypeError"]

\* `for key in new_keys: dao.create(key)`: the rows after the loop, the calls
\* made (with whether the key had a row when the call was made) and the
\* exception that ended the loop, if one did
RECURSIVE CreateEach(_, _, _)
CreateEach(rows, keys, calls) ==
    IF keys = <<>> THEN [rows |-> rows, calls |-> calls, exc |-> ""]
    ELSE LET key  == Head(keys)
             call == [object_key |-> key, had_row |-> key \in KeysOf(rows)]
             made == PhotoDAO_create(rows, <<key>>)
         IN  IF made.exc # ""
             THEN [rows |-> made.rows, calls |-> Append(calls, call), exc |-> made.exc]
             ELSE CreateEach(made.rows, Tail(keys), Append(calls, call))

\* the response of /rescan: 200 with num_new_photos, the 500 of the except
\* clause around the listing, or an exception leaving the handler
Rescanned(status, num_new, type) ==
    [status |-> status, num_new_photos |-> num_new, type |-> type]

rescan ==
    \E photos \in Listings :
        /\ listing' = photos
        /\ IF photos.kind = "error"
           THEN /\ rescanned' = Rescanned("500", 0, photos.type)
                /\ created' = <<>>
                /\ UNCHANGED photo_rows
           ELSE LET existing      == PhotoDAO_list(photo_rows, Len(photos.value), 0)
                    existing_keys == KeysOf(existing)
                    new_keys      == SelectSeq(photos.value,
                                               LAMBDA key : key \notin existing_keys)
                    done          == CreateEach(photo_rows, new_keys, <<>>)
                IN  /\ photo_rows' = done.rows
                    /\ created' = done.calls
                    /\ rescanned' = IF done.exc # ""
                                    THEN Rescanned("raised", 0, done.exc)
                                    ELSE Rescanned("ok", Len(new_keys), "")
        /\ UNCHANGED <<storageVars, selVars, remote, served>>

RescanInit ==
    /\ StorageInit
    /\ AppInit
    /\ photo_rows \in Tables
    /\ remote = (<<"/">> \o SharedKey :> Property(NoneVal, 0))
    /\ served = NoServed

RescanNext == rescan

RescanSpec == RescanInit /\ [][RescanNext]_vars

----------------------------------------------------------------------------
(* C29 *)

\* C29 as stated: whatever the table and the listing hold, a rescan never
\* calls dao.create with an object_key that has a row; a rescan that
\* succeeds has added exactly one row for each listed identifier that had
\* none, has left the rows that were there as they were and reports the
\* number of rows added; and a second rescan of the same listing reports 0.
C29_RescanCreatesMissingOnce ==
    /\ [](\A k \in 1..Len(created) : ~created[k].had_row)
    /\ [][rescanned'.status = "ok" =>
            LET missing == Range(listing'.value) \ KeysOf(photo_rows)
            IN  /\ KeysOf(photo_rows') = KeysOf(photo_rows) \cup missing
                /\ Len(photo_rows') = Len(photo_rows) + Cardinality(missing)
                /\ SubSeq(photo_rows', 1, Len(photo_rows)) = photo_rows
                /\ rescanned'.num_new_photos = Len(photo_rows') - Len(photo_rows)
                /\ (rescanned.status = "ok" /\ listing' = listing)
                      => rescanned'.num_new_photos = 0]_vars

----------------------------------------------------------------------------
(* The caption operations against a remote that keeps the caption property *)
(* of the file: the remote answers the request in flight from what it      *)
(* holds, and the answer is then delivered to the operation.  One caller,  *)
(* one file, any of the instances.                                         *)

SharedPath == <<"/">> \o SharedKey

\* the group the remote reports for a file that has the caption
StoredGroup ==
    ("template_id" :> _TEMPLATE_NAME) @@ ("fields" :> <<Field(_FIELD_NAME, "by-id")>>)

\* the request in flight of caller c: instance, operation on it, request of it
Tag(c) == <<inst[c], nops[inst[c]], Len(sent[c])>>

\* the remote's answer to rq, holding property p for the file: 409 when the
\* caption is absent, else the caption (properties/get) or 200
\* (properties/remove)
RemoteAnswer(p, rq) ==
    IF p.caption = NoneVal THEN Resp("", _NOT_FOUND_CODE, <<>>)
    ELSE IF rq.url = _DROPBOX_PROPERTIES_GET_URL
         THEN Resp("", _SUCCESS_CODE, ("property_groups" :> <<StoredGroup>>))
    ELSE Resp("", _SUCCESS_CODE, <<>>)

\* what the remote holds for the file once it has answered rq
RemoteAfter(p, rq) ==
    IF rq.url = _DROPBOX_PROPERTIES_REMOVE_URL
    THEN Property(NoneVal, p.removes + 1)
    ELSE p

RemoteServe(c) ==
    /\ pc[c] = "wait_data"
    /\ req[c].url \in {_DROPBOX_PROPERTIES_GET_URL, _DROPBOX_PROPERTIES_REMOVE_URL}
    /\ served[c].tag # Tag(c)
    /\ LET path == req[c].json.path
       IN  /\ served' = [served EXCEPT ![c] =
                            [tag |-> Tag(c), resp |-> RemoteAnswer(remote[path], req[c])]]
           /\ remote' = [remote EXCEPT ![path] = RemoteAfter(@, req[c])]
    /\ UNCHANGED <<storageVars, selVars, photo_rows, listing, created, rescanned>>

\* the answer the operation receives in this step is the remote's
Delivered(c) ==
    /\ served[c].tag = Tag(c)
    /\ resps'[c][Len(resps'[c])] = served[c].resp

\* the instances and arguments of these runs
RemoteUse ==
    /\ \A i \in Instances :
          constructed[i] =>
              /\ base_path[i] = <<>>
              /\ app_key[i] = "set"
              /\ app_secret[i] = "set"
              /\ refresh_token[i] = "set"
    /\ \A c \in Callers : op[c] # NoOp => op[c].key = SharedKey

RemoteInit ==
    /\ StorageInit
    /\ AppInit
    /\ photo_rows = <<>>
    /\ served = NoServed
    /\ remote \in { (SharedPath :> Property(caption, 0)) : caption \in {NoneVal, "by-id"} }

RemoteNext ==
    \/ \E i \in Instances : Construct(i) /\ RemoteUse'
    \/ \E c \in SeqCallers, i \in Instances : get_caption(c, i) /\ RemoteUse'
    \/ \E c \in SeqCallers, i \in Instances : delete_caption(c, i) /\ RemoteUse'
    \/ \E c \in SeqCallers : RefreshTokenResponse(c)
    \/ \E c \in SeqCallers : RemoteServe(c)
    \/ \E c \in SeqCallers : PropertiesGetResponse(c) /\ Delivered(c)
    \/ \E c \in SeqCallers : PropertiesRemoveResponse(c) /\ Delivered(c)

RemoteSpec == RemoteInit /\ [][RemoteNext]_vars

----------------------------------------------------------------------------
(* C30 *)

\* the operation of caller c has ended on an answer of the remote
EndedOnAnswer(c) == pc[c] = "idle" /\ Answered(c)

\* C30: against a remote that answers 409 when the caption is absent, every
\* delete_caption the remote has answered returns normally, the first on a
\* file as well as any repeated one, and a get_caption on a file for which
\* the remote has answered two properties/remove requests returns None.
C30_DeleteIdempotent ==
    \A c \in Callers :
        /\ (op[c].name = "delete_caption" /\ EndedOnAnswer(c))
              => ReturnedNone(c)
        /\ (op[c].name = "get_caption" /\ EndedOnAnswer(c)
              /\ remote[<<"/">> \o op[c].key].removes >= 2)
              => ReturnedNone(c)

C30_Witness ==
    /\ op[1] = Op("get_caption", SharedKey, "")
    /\ EndedOnAnswer(1)
    /\ Answer(1).status_code = _NOT_FOUND_CODE
    /\ remote[SharedPath].removes = 2
    /\ ReturnedNone(1)

====
